---- MODULE Spec2Model ----
(***************************************************************************)
(* Model of sort_wallpapers_by_color.py: the dominant-hue classifier       *)
(* (analyze_image_dominant_hue), the hue-to-label mapper                   *)
(* (hue_to_color_name) and the folder loop that applies them               *)
(* (process_folder).                                                       *)
(*                                                                         *)
(* Numbers.  The code works on floats; the model works on exact rationals  *)
(* <<n, d>> (d > 0).  A channel is an integer 0..ChannelMax standing for   *)
(* c / 255.0; a threshold is an integer number of hundredths (15 is 0.15). *)
(* None is the empty tuple.  A reason string is a tuple: <<"too_dark">>,   *)
(* <<"hist_peak_bin_", i>> for f"hist_peak_bin_{i}", <<"error_opening:",   *)
(* e>> for f"error_opening:{e}" with e the identifier of the message.      *)
(***************************************************************************)
EXTENDS Integers, Sequences, FiniteSets, TLC

VARIABLES
    pc,          \* position of the program
    image,       \* the file handed to analyze_image_dominant_hue
    min_sat,     \* saturation threshold, hundredths
    min_val,     \* value threshold, hundredths
    bins,        \* number of histogram buckets
    hue,         \* hue returned by the classifier (or given to the mapper)
    reason,      \* reason returned by the classifier
    color,       \* label assigned
    entries,     \* process_folder: files of the source directory, in scan order
    idx,         \* process_folder: index of the next entry of the loop
    dry_run,     \* process_folder argument
    move_files,  \* process_folder argument
    dest_is_src, \* whether dest names the source directory itself
    srcFiles,    \* names of the files directly inside the source directory
    destFiles,   \* files inside dest/<color>/
    log_rows,    \* process_folder: rows of the log
    counts,      \* process_folder: Counter of labels
    skipped,     \* process_folder: number of non-image files
    errors,      \* process_folder: number of failed moves/copies
    destDirs,    \* the directories dest/<color>/ that exist
    log_file     \* whether dest/sort_log.csv has been written by the run

vars == <<pc, image, min_sat, min_val, bins, hue, reason, color, entries, idx,
          dry_run, move_files, dest_is_src, srcFiles, destFiles, log_rows,
          counts, skipped, errors, destDirs, log_file>>

folderVars == <<entries, idx, dry_run, move_files, dest_is_src, srcFiles,
                destFiles, log_rows, counts, skipped, errors, destDirs, log_file>>

(***************************************************************************)
(* Bounds of the model.                                                    *)
(***************************************************************************)
MaxPixels == 2

MaxFiles == 2

CoarseBins == 6

HueDen == 2

(***************************************************************************)
(* Program constants.                                                      *)
(***************************************************************************)
ChannelMax == 255

DEFAULT_MIN_SAT == 15

DEFAULT_MIN_VAL == 15

NUM_BINS == 36

TooDarkMeanVal == 12

LowMeanSat == 8

EpsInv == 1000000

FullCircle == 360

None == <<>>

ALLOWED_EXT == {".jpg", ".jpeg", ".png", ".bmp", ".gif", ".webp", ".tiff"}

COLOR_RANGES ==
    << [name |-> "red",    start |-> 345, end |-> 360],
       [name |-> "red",    start |-> 0,   end |-> 15],
       [name |-> "orange", start |-> 15,  end |-> 30],
       [name |-> "yellow", start |-> 30,  end |-> 60],
       [name |-> "green",  start |-> 60,  end |-> 170],
       [name |-> "cyan",   start |-> 170, end |-> 200],
       [name |-> "blue",   start |-> 200, end |-> 260],
       [name |-> "purple", start |-> 260, end |-> 300],
       [name |-> "pink",   start |-> 300, end |-> 345] >>

(***************************************************************************)
(* Rational arithmetic.                                                    *)
(***************************************************************************)
RECURSIVE GCD(_, _)
GCD(a, b) == IF b = 0 THEN a ELSE GCD(b, a % b)

RNorm(q) ==
    LET g == GCD(IF q[1] < 0 THEN -q[1] ELSE q[1], q[2])
    IN  IF g = 0 THEN q ELSE <<q[1] \div g, q[2] \div g>>

RAdd(p, q) == RNorm(<<p[1] * q[2] + q[1] * p[2], p[2] * q[2]>>)

RLess(p, q) == p[1] * q[2] < q[1] * p[2]

RGeq(p, q) == ~RLess(p, q)

Hundredths(t) == <<t, 100>>

Max3(a, b, c) ==
    LET m == IF a >= b THEN a ELSE b IN IF m >= c THEN m ELSE c

Min3(a, b, c) ==
    LET m == IF a <= b THEN a ELSE b IN IF m <= c THEN m ELSE c

(***************************************************************************)
(* hue_to_color_name: the first range of COLOR_RANGES, in declaration      *)
(* order, that contains the hue; "other" when none does.                   *)
(***************************************************************************)
\* mutant: the interval taken open at its start and closed at its end
InRange_closed_end(rng, hue_deg) ==
    IF rng.start <= rng.end
    THEN RLess(<<rng.start, 1>>, hue_deg) /\ RGeq(<<rng.end, 1>>, hue_deg)
    ELSE RLess(<<rng.start, 1>>, hue_deg) \/ RGeq(<<rng.end, 1>>, hue_deg)

InRange(rng, hue_deg) ==
    IF rng.start <= rng.end
    THEN RGeq(hue_deg, <<rng.start, 1>>) /\ RLess(hue_deg, <<rng.end, 1>>)
    ELSE RGeq(hue_deg, <<rng.start, 1>>) \/ RLess(hue_deg, <<rng.end, 1>>)

RECURSIVE FirstRange(_, _)
FirstRange(k, hue_deg) ==
    IF k > Len(COLOR_RANGES) THEN "other"
    ELSE IF InRange(COLOR_RANGES[k], hue_deg) THEN COLOR_RANGES[k].name
    ELSE FirstRange(k + 1, hue_deg)

hue_to_color_name(hue_deg) ==
    IF hue_deg = None THEN "neutral" ELSE FirstRange(1, hue_deg)

(***************************************************************************)
(* colorsys.rgb_to_hsv on the pixel px / 255.0.  h is the hue as a         *)
(* fraction of the circle in [0, 1), s the saturation, v the value.        *)
(***************************************************************************)
rgb_to_hsv(px) ==
    LET r == px[1]
        g == px[2]
        b == px[3]
        maxc == Max3(r, g, b)
        minc == Min3(r, g, b)
        rangec == maxc - minc
        hh == IF r = maxc THEN g - b
              ELSE IF g = maxc THEN 2 * rangec + (b - r)
              ELSE 4 * rangec + (r - g)
    IN  IF minc = maxc
        THEN [h |-> <<0, 1>>, s |-> <<0, 1>>, v |-> RNorm(<<maxc, ChannelMax>>)]
        ELSE [h |-> RNorm(<<hh % (6 * rangec), 6 * rangec>>),
              s |-> RNorm(<<rangec, maxc>>),
              v |-> RNorm(<<maxc, ChannelMax>>)]

\* mutant: the two thresholds joined by "or"
mask_either(pixels, msat, mval) ==
    {k \in 1..Len(pixels) :
        \/ RGeq(rgb_to_hsv(pixels[k]).s, Hundredths(msat))
        \/ RGeq(rgb_to_hsv(pixels[k]).v, Hundredths(mval))}

\* the indices of the pixels with s >= min_sat and v >= min_val
mask(pixels, msat, mval) ==
    {k \in 1..Len(pixels) :
        /\ RGeq(rgb_to_hsv(pixels[k]).s, Hundredths(msat))
        /\ RGeq(rgb_to_hsv(pixels[k]).v, Hundredths(mval))}

RECURSIVE RSum(_, _)
RSum(qs, k) == IF k = 0 THEN <<0, 1>> ELSE RAdd(RSum(qs, k - 1), qs[k])

\* mean of a non-empty sequence of rationals
mean(qs) == LET t == RSum(qs, Len(qs)) IN RNorm(<<t[1], t[2] * Len(qs)>>)

\* s * v + 1e-6 in units of 1 / (ChannelMax * EpsInv)
weights(px) ==
    LET c == rgb_to_hsv(px)
    IN  ((c.s[1] * c.v[1] * ChannelMax) \div (c.s[2] * c.v[2])) * EpsInv + ChannelMax

\* the bucket of np.histogram(range=(0, 360), bins=nb) holding the hue h * 360
BinOf(px, nb) ==
    LET c == rgb_to_hsv(px)
        i == (c.h[1] * nb) \div c.h[2]
    IN  IF i >= nb THEN nb - 1 ELSE i

\* mutant: every pixel votes, masked or not
RECURSIVE bincount_unmasked(_, _, _, _)
bincount_unmasked(pixels, m, nb, k) ==
    IF k = 0 THEN [i \in 0..(nb - 1) |-> 0]
    ELSE [bincount_unmasked(pixels, m, nb, k - 1)
             EXCEPT ![BinOf(pixels[k], nb)] = @ + weights(pixels[k])]

\* the weights of the masked pixels 1..k added to their buckets, in pixel order
RECURSIVE bincount(_, _, _, _)
bincount(pixels, m, nb, k) ==
    IF k = 0 THEN [i \in 0..(nb - 1) |-> 0]
    ELSE LET hist == bincount(pixels, m, nb, k - 1)
         IN  IF k \in m
             THEN [hist EXCEPT ![BinOf(pixels[k], nb)] = @ + weights(pixels[k])]
             ELSE hist

histogram(pixels, msat, mval, nb) ==
    bincount(pixels, mask(pixels, msat, mval), nb, Len(pixels))

RECURSIVE HistTotal(_, _)
HistTotal(hist, n) == IF n = 0 THEN 0 ELSE hist[n - 1] + HistTotal(hist, n - 1)

\* mutant: the last index holding the maximum
RECURSIVE argmax_last(_, _)
argmax_last(hist, n) ==
    IF n = 1 THEN 0
    ELSE LET best == argmax_last(hist, n - 1)
         IN  IF hist[n - 1] >= hist[best] THEN n - 1 ELSE best

\* numpy argmax over hist[0..n-1]: the first index holding the maximum
RECURSIVE argmax(_, _)
argmax(hist, n) ==
    IF n = 1 THEN 0
    ELSE LET best == argmax(hist, n - 1)
         IN  IF hist[n - 1] > hist[best] THEN n - 1 ELSE best

\* mutant: the start of the bucket instead of its midpoint
Midpoint_start(i, nb) == RNorm(<<(i * FullCircle) % (nb * FullCircle), nb>>)

\* ((bin_edges[i] + bin_edges[i + 1]) / 2) % 360
Midpoint(i, nb) ==
    RNorm(<<((2 * i + 1) * FullCircle) % (2 * nb * FullCircle), 2 * nb>>)

(***************************************************************************)
(* analyze_image_dominant_hue.  A file is [name, ext, decodable, pixels]:  *)
(* pixels is the grid left by convert and resize, one <<r, g, b>> each.    *)
(***************************************************************************)
\* mutant: the cascade with its first two tests exchanged
no_pixel_reason_saturation_first(pixels) ==
    LET mean_v == mean([k \in 1..Len(pixels) |-> rgb_to_hsv(pixels[k]).v])
        mean_s == mean([k \in 1..Len(pixels) |-> rgb_to_hsv(pixels[k]).s])
    IN  IF RLess(mean_s, Hundredths(LowMeanSat)) THEN <<"low_saturation">>
        ELSE IF RLess(mean_v, Hundredths(TooDarkMeanVal)) THEN <<"too_dark">>
        ELSE <<"no_pixels_after_filter">>

\* the diagnostic cascade taken when the mask is empty
no_pixel_reason(pixels) ==
    LET mean_v == mean([k \in 1..Len(pixels) |-> rgb_to_hsv(pixels[k]).v])
        mean_s == mean([k \in 1..Len(pixels) |-> rgb_to_hsv(pixels[k]).s])
    IN  IF RLess(mean_v, Hundredths(TooDarkMeanVal)) THEN <<"too_dark">>
        ELSE IF RLess(mean_s, Hundredths(LowMeanSat)) THEN <<"low_saturation">>
        ELSE <<"no_pixels_after_filter">>

\* mutant: the bucket named by its one-based position
hist_peak_one_based(pixels, msat, mval, nb) ==
    LET hist == histogram(pixels, msat, mval, nb)
        max_idx == argmax(hist, nb)
    IN  IF HistTotal(hist, nb) = 0 THEN <<None, <<"empty_histogram">>>>
        ELSE <<Midpoint(max_idx, nb), <<"hist_peak_bin_", max_idx + 1>>>>

hist_peak(pixels, msat, mval, nb) ==
    LET hist == histogram(pixels, msat, mval, nb)
        max_idx == argmax(hist, nb)
    IN  IF HistTotal(hist, nb) = 0 THEN <<None, <<"empty_histogram">>>>
        ELSE <<Midpoint(max_idx, nb), <<"hist_peak_bin_", max_idx>>>>

\* mutant: a failure to open reported as an empty mask
open_error_untagged(file) == <<None, <<"no_pixels_after_filter">>>>

open_error(file) == <<None, <<"error_opening:", 1>>>>

analyze_image_dominant_hue(file, msat, mval, nb) ==
    IF ~file.decodable THEN open_error(file)
    ELSE IF mask(file.pixels, msat, mval) = {}
         THEN <<None, no_pixel_reason(file.pixels)>>
         ELSE hist_peak(file.pixels, msat, mval, nb)

\* mutant: the label without the test for "too_dark"
assign_color_no_dark(h, rsn) ==
    IF h = None /\ rsn \in {<<"low_saturation">>} THEN "neutral"
    ELSE hue_to_color_name(h)

\* process_folder: the label given to the classifier's answer
assign_color(h, rsn) ==
    IF h = None /\ rsn \in {<<"too_dark">>} THEN "dark"
    ELSE IF h = None /\ rsn \in {<<"low_saturation">>} THEN "neutral"
    ELSE hue_to_color_name(h)

Labels == {COLOR_RANGES[k].name : k \in 1..Len(COLOR_RANGES)} \cup {"neutral", "dark", "other"}

(***************************************************************************)
(* Inputs.                                                                 *)
(***************************************************************************)
Black == <<0, 0, 0>>
Gray == <<128, 128, 128>>
Red == <<255, 0, 0>>
Green == <<0, 255, 0>>
Blue == <<0, 0, 255>>
DimRed == <<35, 0, 0>>
DarkRed == <<20, 0, 0>>
Pale == <<255, 230, 230>>
Steel == <<100, 150, 200>>
Orange == <<255, 64, 0>>

Palette == {Black, Gray, Red, Green, Blue, DimRed, DarkRed, Pale, Steel, Orange}

SeqsUpTo(S, n) == UNION {[1..k -> S] : k \in 1..n}

Uniform(px, n) == [k \in 1..n |-> px]

Images ==
    SeqsUpTo(Palette, MaxPixels)
    \cup {Uniform(<<g, g, g>>, n) : g \in 0..ChannelMax, n \in 1..MaxPixels}

ImageFile(pixels) == [name |-> 1, ext |-> ".jpg", decodable |-> TRUE, pixels |-> pixels]

Undecodable == [name |-> 1, ext |-> ".jpg", decodable |-> FALSE, pixels |-> <<>>]

NoFile == [name |-> 0, ext |-> "", decodable |-> FALSE, pixels |-> <<>>]

FolderInit ==
    /\ entries = <<>>
    /\ idx = 1
    /\ dry_run = TRUE
    /\ move_files = TRUE
    /\ dest_is_src = FALSE
    /\ srcFiles = {}
    /\ destFiles = {}
    /\ log_rows = <<>>
    /\ counts = [l \in Labels |-> 0]
    /\ skipped = 0
    /\ errors = 0
    /\ destDirs = {}
    /\ log_file = FALSE

(***************************************************************************)
(* The mapper alone: a hue in degrees, hue_to_color_name applied to it.    *)
(***************************************************************************)
HueInputs == {<<n, HueDen>> : n \in (-10 * HueDen)..(370 * HueDen)} \cup {None}

InitHue ==
    /\ pc = "map"
    /\ hue \in HueInputs
    /\ color = ""
    /\ reason = <<>>
    /\ image = NoFile
    /\ min_sat = DEFAULT_MIN_SAT
    /\ min_val = DEFAULT_MIN_VAL
    /\ bins = NUM_BINS
    /\ FolderInit

MapHue ==
    /\ pc = "map"
    /\ color' = hue_to_color_name(hue)
    /\ pc' = "mapped"
    /\ UNCHANGED <<hue, reason, image, min_sat, min_val, bins, folderVars>>

NextHue == MapHue

SpecHue == InitHue /\ [][NextHue]_vars

(***************************************************************************)
(* The classifier on one image, followed by the labelling of its answer.  *)
(***************************************************************************)
InitAnalyze ==
    /\ pc = "analyze"
    /\ image \in {ImageFile(p) : p \in Images} \cup {Undecodable}
    /\ min_sat \in {0, DEFAULT_MIN_SAT}
    /\ min_val \in {0, DEFAULT_MIN_VAL}
    /\ bins \in {NUM_BINS, CoarseBins}
    /\ hue = None
    /\ reason = <<>>
    /\ color = ""
    /\ FolderInit

Classify ==
    /\ pc = "analyze"
    /\ LET res == analyze_image_dominant_hue(image, min_sat, min_val, bins)
       IN  /\ hue' = res[1]
           /\ reason' = res[2]
           /\ color' = assign_color(res[1], res[2])
    /\ pc' = "analyzed"
    /\ UNCHANGED <<image, min_sat, min_val, bins, folderVars>>

\* the six orders of a pixel's channels: same maxc and minc, another hue
ChannelOrders(px) ==
    {<<px[1], px[2], px[3]>>, <<px[1], px[3], px[2]>>, <<px[2], px[1], px[3]>>,
     <<px[2], px[3], px[1]>>, <<px[3], px[1], px[2]>>, <<px[3], px[2], px[1]>>}

\* the same image with the hue of one pixel outside the mask changed
Reclassify ==
    /\ pc = "analyzed"
    /\ image.decodable
    /\ \E k \in (1..Len(image.pixels)) \ mask(image.pixels, min_sat, min_val) :
         \E q \in ChannelOrders(image.pixels[k]) \ {image.pixels[k]} :
            /\ image' = [image EXCEPT !.pixels[k] = q]
            /\ LET res == analyze_image_dominant_hue(image', min_sat, min_val, bins)
               IN  /\ hue' = res[1]
                   /\ reason' = res[2]
                   /\ color' = assign_color(res[1], res[2])
    /\ pc' = "reanalyzed"
    /\ UNCHANGED <<min_sat, min_val, bins, folderVars>>

NextAnalyze == Classify \/ Reclassify

SpecAnalyze == InitAnalyze /\ [][NextAnalyze]_vars

(***************************************************************************)
(* process_folder.  The names of the entries are their positions; the log  *)
(* is dest/sort_log.csv.  A path under dest is <<color, name, ext, i>>,     *)
(* i = 0 for the file's own name and i > 0 for the suffix _i.              *)
(***************************************************************************)
lower(ext) ==
    CASE ext = ".PNG" -> ".png"
      [] ext = ".JPG" -> ".jpg"
      [] OTHER -> ext

is_image_file(file) == lower(file.ext) \in ALLOWED_EXT

RECURSIVE UniqueSuffix(_, _, _)
UniqueSuffix(files, c, file) ==
    IF <<c, file.name, file.ext, 0>> \notin files THEN 0
    ELSE 1 + UniqueSuffix({<<f[1], f[2], f[3], f[4] - 1>> : f \in {g \in files : g[4] > 0}},
                          c, file)

get_unique_dest_path(files, c, file) ==
    <<c, file.name, file.ext, UniqueSuffix(files, c, file)>>

LogName == [name |-> 0, ext |-> ".csv"]

FileName(file) == [name |-> file.name, ext |-> file.ext]

FolderImages == {<<Black>>, <<Gray>>, <<DimRed>>, <<Green, Blue>>}

FolderFiles ==
    {[ext |-> ".jpg", decodable |-> TRUE, pixels |-> p] : p \in FolderImages}
    \cup {[ext |-> ".jpg", decodable |-> FALSE, pixels |-> <<>>],
          [ext |-> ".PNG", decodable |-> TRUE, pixels |-> <<Steel>>],
          [ext |-> ".txt", decodable |-> FALSE, pixels |-> <<>>]}

\* the directory listing: every file under the name of its position
Scan(fs) ==
    [k \in 1..Len(fs) |-> [name |-> k, ext |-> fs[k].ext,
                           decodable |-> fs[k].decodable, pixels |-> fs[k].pixels]]

\* what an earlier run may have left under dest
EarlierRun(es) ==
    {{}, {<<c, es[1].name, es[1].ext, 0>> : c \in Labels}}

Init ==
    /\ pc = "loop"
    /\ \E fs \in SeqsUpTo(FolderFiles, MaxFiles) : entries = Scan(fs)
    /\ idx = 1
    /\ dry_run \in BOOLEAN
    /\ move_files \in BOOLEAN
    /\ dest_is_src \in BOOLEAN
    /\ srcFiles = {FileName(entries[k]) : k \in 1..Len(entries)}
    /\ destFiles \in EarlierRun(entries)
    /\ destDirs = {f[1] : f \in destFiles}
    /\ log_rows = <<>>
    /\ counts = [l \in Labels |-> 0]
    /\ skipped = 0
    /\ errors = 0
    /\ log_file = FALSE
    /\ image = NoFile
    /\ min_sat = DEFAULT_MIN_SAT
    /\ min_val = DEFAULT_MIN_VAL
    /\ bins = NUM_BINS
    /\ hue = None
    /\ reason = <<>>
    /\ color = ""

\* one turn of the loop on a file that is not an image
SkipNotImage ==
    /\ pc = "loop"
    /\ idx <= Len(entries)
    /\ ~is_image_file(entries[idx])
    /\ skipped' = skipped + 1
    /\ idx' = idx + 1
    /\ UNCHANGED <<pc, image, min_sat, min_val, bins, hue, reason, color, entries,
                   dry_run, move_files, dest_is_src, srcFiles, destFiles, log_rows,
                   counts, errors, destDirs, log_file>>

Row(file, c, dest_path, status, rsn) ==
    [source |-> FileName(file), assigned_color |-> c, destination |-> dest_path,
     status |-> status, reason |-> rsn]

\* mutant: dry_run ignored
transfers_always(dry) == TRUE

\* whether the loop touches the file system for a file
transfers(dry) == ~dry

row_status(dry) == IF ~dry THEN "ok" ELSE "dry-run"

\* one turn of the loop on an image; ok tells whether shutil.move / copy2 succeeds
ProcessImage(ok) ==
    /\ pc = "loop"
    /\ idx <= Len(entries)
    /\ is_image_file(entries[idx])
    /\ LET file == entries[idx]
           res == analyze_image_dominant_hue(file, min_sat, min_val, NUM_BINS)
           c == assign_color(res[1], res[2])
           dest_path == get_unique_dest_path(destFiles, c, file)
       IN  /\ image' = file
           /\ hue' = res[1]
           /\ reason' = res[2]
           /\ color' = c
           /\ destDirs' = destDirs \cup {c}
           /\ IF ~transfers(dry_run)
              THEN /\ ok
                   /\ counts' = [counts EXCEPT ![c] = @ + 1]
                   /\ log_rows' = Append(log_rows,
                                         Row(file, c, dest_path, row_status(dry_run), res[2]))
                   /\ UNCHANGED <<srcFiles, destFiles, errors>>
              ELSE IF ok
              THEN /\ srcFiles' = IF move_files THEN srcFiles \ {FileName(file)} ELSE srcFiles
                   /\ destFiles' = destFiles \cup {dest_path}
                   /\ counts' = [counts EXCEPT ![c] = @ + 1]
                   /\ log_rows' = Append(log_rows,
                                         Row(file, c, dest_path, row_status(dry_run), res[2]))
                   /\ UNCHANGED errors
              ELSE /\ errors' = errors + 1
                   /\ log_rows' = Append(log_rows, Row(file, c, <<>>, "error", <<"os_error">>))
                   /\ UNCHANGED <<srcFiles, destFiles, counts>>
    /\ idx' = idx + 1
    /\ UNCHANGED <<pc, min_sat, min_val, bins, entries, dry_run, move_files,
                   dest_is_src, skipped, log_file>>

\* after the loop: the log is written to dest/sort_log.csv, or the write fails
WriteLog(ok) ==
    /\ pc = "loop"
    /\ idx > Len(entries)
    /\ log_file' = ok
    /\ srcFiles' = IF ok /\ dest_is_src THEN srcFiles \cup {LogName} ELSE srcFiles
    /\ pc' = "done"
    /\ UNCHANGED <<image, min_sat, min_val, bins, hue, reason, color, entries, idx,
                   dry_run, move_files, dest_is_src, destFiles, log_rows, counts,
                   skipped, errors, destDirs>>

Next ==
    \/ SkipNotImage
    \/ \E ok \in BOOLEAN : ProcessImage(ok)
    \/ \E ok \in BOOLEAN : WriteLog(ok)

Spec == Init /\ [][Next]_vars

(***************************************************************************)
(* Properties.                                                             *)
(***************************************************************************)
\* the classifier has answered for a decodable image
Analyzed == pc \in {"analyzed", "reanalyzed"} /\ image.decodable

Gated == mask(image.pixels, min_sat, min_val)

MeanValLow ==
    RLess(mean([k \in 1..Len(image.pixels) |-> rgb_to_hsv(image.pixels[k]).v]), <<12, 100>>)

MeanSatLow ==
    RLess(mean([k \in 1..Len(image.pixels) |-> rgb_to_hsv(image.pixels[k]).s]), <<8, 100>>)

\* C1: when no pixel passes the gate the answer is (None, reason), the reason
\* taken from the ordered cascade over the means of all pixels: too_dark if the
\* mean value is below 0.12, else low_saturation if the mean saturation is below
\* 0.08, else no_pixels_after_filter; both means low gives too_dark.
C1_Cascade ==
    (Analyzed /\ Gated = {}) =>
        /\ hue = None
        /\ reason = IF MeanValLow THEN <<"too_dark">>
                    ELSE IF MeanSatLow THEN <<"low_saturation">>
                    ELSE <<"no_pixels_after_filter">>
        /\ (MeanValLow /\ MeanSatLow => reason = <<"too_dark">>)

C1_Witness ==
    /\ Analyzed
    /\ Gated = {}
    /\ MeanValLow
    /\ MeanSatLow
    /\ reason = <<"too_dark">>

\* C2: the label process_folder assigns to a classifier answer (hue, reason) is
\* dark for too_dark, else neutral for low_saturation, else neutral for a None
\* hue, else the range lookup of the hue; dark is assigned only for too_dark.
C2_Label ==
    /\ (pc \in {"loop", "done"} /\ image # NoFile) =>
          /\ color = IF reason = <<"too_dark">> THEN "dark"
                     ELSE IF reason = <<"low_saturation">> THEN "neutral"
                     ELSE IF hue = None THEN "neutral"
                     ELSE hue_to_color_name(hue)
          /\ (color = "dark" => reason = <<"too_dark">>)
    /\ \A k \in 1..Len(log_rows) :
          log_rows[k].status # "error" =>
              (log_rows[k].assigned_color = "dark" <=> log_rows[k].reason = <<"too_dark">>)

C2_Witness ==
    /\ pc = "done"
    /\ \E k \in 1..Len(log_rows) :
          log_rows[k].assigned_color = "dark" /\ log_rows[k].reason = <<"too_dark">>
    /\ \E k \in 1..Len(log_rows) :
          log_rows[k].assigned_color = "green" /\ log_rows[k].reason[1] = "hist_peak_bin_"

\* C3: among the buckets of maximum total weight the lowest-indexed is chosen;
\* as many pure-green as pure-blue pixels with 36 bins give hist_peak_bin_12
\* and the label green.
C3_LowestPeak ==
    /\ (Analyzed /\ Len(reason) = 2) =>
          LET hist == histogram(image.pixels, min_sat, min_val, bins)
          IN  /\ \A j \in 0..(bins - 1) : hist[j] <= hist[reason[2]]
              /\ \A j \in 0..(reason[2] - 1) : hist[j] < hist[reason[2]]
    /\ (/\ Analyzed
        /\ bins = 36
        /\ \A k \in 1..Len(image.pixels) : image.pixels[k] \in {Green, Blue}
        /\ Cardinality({k \in 1..Len(image.pixels) : image.pixels[k] = Green})
              = Cardinality({k \in 1..Len(image.pixels) : image.pixels[k] = Blue})) =>
          /\ reason = <<"hist_peak_bin_", 12>>
          /\ color = "green"

C3_Witness ==
    /\ pc = "analyzed"
    /\ image.decodable
    /\ image.pixels = <<Blue, Green>>
    /\ bins = 36
    /\ reason = <<"hist_peak_bin_", 12>>
    /\ color = "green"

\* C4: every hue h with 0 <= h < 360 lies in exactly one range [start, end) of
\* COLOR_RANGES and is given that range's name, never other; 15 is orange,
\* 345 is red, 350 and 5 are red.
C4_Ranges ==
    (pc = "mapped" /\ hue # None /\ hue[1] >= 0 /\ hue[1] < 360 * hue[2]) =>
        LET holds == {k \in 1..Len(COLOR_RANGES) :
                         /\ COLOR_RANGES[k].start * hue[2] <= hue[1]
                         /\ hue[1] < COLOR_RANGES[k].end * hue[2]}
        IN  /\ Cardinality(holds) = 1
            /\ \A k \in holds : color = COLOR_RANGES[k].name
            /\ color # "other"
            /\ (hue[1] = 15 * hue[2] => color = "orange")
            /\ (hue[1] = 345 * hue[2] => color = "red")
            /\ (hue[1] = 350 * hue[2] => color = "red")
            /\ (hue[1] = 5 * hue[2] => color = "red")

C4_Witness ==
    /\ pc = "mapped"
    /\ hue # None
    /\ hue[1] = 15 * hue[2]
    /\ color = "orange"

AllRed ==
    /\ Analyzed
    /\ \A k \in 1..Len(image.pixels) : image.pixels[k] = Red
    /\ min_sat = 15
    /\ min_val = 15
    /\ bins = 36

\* C5 as stated: an image of pure red pixels, default thresholds and 36 bins,
\* gets a hue within a degree of 0 (or of 360), reason hist_peak_bin_0, label red.
C5_HueNearZero ==
    AllRed =>
        /\ hue # None
        /\ (hue[1] <= hue[2] \/ hue[1] >= 359 * hue[2])
        /\ reason = <<"hist_peak_bin_", 0>>
        /\ color = "red"

\* C5: an image of pure red pixels, default thresholds and 36 bins, gets the hue
\* 5, the midpoint of bucket 0, with reason hist_peak_bin_0 and the label red.
C5_RedMidpoint ==
    AllRed =>
        /\ hue = <<5, 1>>
        /\ reason = <<"hist_peak_bin_", 0>>
        /\ color = "red"

C5_Witness == AllRed /\ Len(image.pixels) = 2 /\ color = "red"

UniformGray ==
    /\ Analyzed
    /\ min_sat = 15
    /\ min_val = 15
    /\ \A k \in 1..Len(image.pixels) :
          /\ image.pixels[k] = image.pixels[1]
          /\ image.pixels[k][1] = image.pixels[k][2]
          /\ image.pixels[k][2] = image.pixels[k][3]

\* C6: a uniform achromatic image of level g, default thresholds: g < 0.12 (all
\* black among them) gives too_dark and dark, g >= 0.12 (mid gray among them)
\* gives low_saturation and neutral; no such image gets a hue.
C6_Achromatic ==
    UniformGray =>
        /\ hue = None
        /\ IF 100 * image.pixels[1][1] < 12 * 255
           THEN reason = <<"too_dark">> /\ color = "dark"
           ELSE reason = <<"low_saturation">> /\ color = "neutral"
        /\ (image.pixels[1] = Black => color = "dark")
        /\ (image.pixels[1] = Gray => color = "neutral")

C6_Witness ==
    /\ UniformGray
    /\ image.pixels = <<Gray, Gray>>
    /\ reason = <<"low_saturation">>
    /\ color = "neutral"

\* C7: the hue is not None exactly when the reason is hist_peak_bin_<i>; then
\* 0 <= i < bins, bucket i has the maximum total weight, and the hue is the
\* midpoint (i + 1/2) * 360 / bins of bucket i, in [0, 360).  Every other
\* reason comes with the hue None.
C7_HueIffPeak ==
    pc \in {"analyzed", "reanalyzed"} =>
        /\ reason[1] \in {"too_dark", "low_saturation", "no_pixels_after_filter",
                          "empty_histogram", "error_opening:", "hist_peak_bin_"}
        /\ (hue # None <=> reason[1] = "hist_peak_bin_")
        /\ reason[1] = "hist_peak_bin_" =>
              LET i == reason[2]
                  hist == histogram(image.pixels, min_sat, min_val, bins)
              IN  /\ i \in 0..(bins - 1)
                  /\ \A j \in 0..(bins - 1) : hist[j] <= hist[i]
                  /\ hue[1] * 2 * bins = (2 * i + 1) * 360 * hue[2]
                  /\ hue[1] >= 0
                  /\ hue[1] < 360 * hue[2]

C7_Witness ==
    /\ pc = "analyzed"
    /\ hue # None
    /\ bins = CoarseBins
    /\ Len(reason) = 2
    /\ reason[2] > 0

ImageEntries == {k \in 1..Len(entries) : is_image_file(entries[k])}

\* C8: a file that cannot be opened gets (None, error_opening:...), a reason
\* other than too_dark, low_saturation and no_pixels_after_filter; process_folder
\* still labels it and goes on through every remaining file of the directory.
C8_OpenError ==
    /\ (pc \in {"loop", "done"} /\ image # NoFile /\ ~image.decodable) =>
          /\ hue = None
          /\ reason[1] = "error_opening:"
          /\ reason \notin {<<"too_dark">>, <<"low_saturation">>, <<"no_pixels_after_filter">>}
          /\ color = "neutral"
    /\ \A k \in ImageEntries :
          (k < idx /\ ~entries[k].decodable) =>
              \E n \in 1..Len(log_rows) :
                  /\ log_rows[n].source = FileName(entries[k])
                  /\ log_rows[n].assigned_color = "neutral"
                  /\ (log_rows[n].status # "error" => log_rows[n].reason[1] = "error_opening:")
    /\ (pc = "loop" /\ image # NoFile /\ ~image.decodable) =>
          /\ idx <= Len(entries) + 1
          /\ Len(log_rows) = Cardinality({k \in ImageEntries : k < idx})
    /\ pc = "done" =>
          /\ idx = Len(entries) + 1
          /\ Len(log_rows) = Cardinality(ImageEntries)
          /\ skipped = Len(entries) - Cardinality(ImageEntries)

C8_Witness ==
    /\ pc = "done"
    /\ Len(entries) = 2
    /\ is_image_file(entries[1])
    /\ ~entries[1].decodable
    /\ entries[2].decodable
    /\ Len(log_rows) = 2
    /\ log_rows[1].reason[1] = "error_opening:"
    /\ log_rows[2].reason[1] = "hist_peak_bin_"

SourceBefore == {FileName(entries[k]) : k \in 1..Len(entries)}

AllRowsDryRun == \A n \in 1..Len(log_rows) : log_rows[n].status = "dry-run"

\* C9 as stated: with dry_run true the set of files of the source directory is
\* the same after the run as before, and every log row has status dry-run.
C9_SourceUntouched ==
    dry_run => (srcFiles = SourceBefore /\ AllRowsDryRun)

\* C9: with dry_run true no file is moved or copied: every file of the source
\* directory stays, nothing is added under dest/<color>/, every log row has
\* status dry-run; the one file the run may add to the source directory is
\* sort_log.csv, when dest is the source directory itself.
C9_DryRun ==
    /\ [](dry_run =>
            /\ SourceBefore \subseteq srcFiles
            /\ srcFiles \ SourceBefore \subseteq {LogName}
            /\ (LogName \in srcFiles => (dest_is_src /\ log_file /\ pc = "done"))
            /\ AllRowsDryRun)
    /\ [][dry_run => destFiles' = destFiles]_vars

C9_Witness ==
    /\ pc = "done"
    /\ dry_run
    /\ Len(log_rows) = 2
    /\ log_file
    /\ dest_is_src
    /\ LogName \in srcFiles

\* C10: pixels failing the gate give no weight to the histogram: when a pixel
\* passes the gate the histogram total is positive and empty_histogram is not
\* returned, the chosen bucket holds the hue of a gated pixel, and changing the
\* hue of a pixel outside the gate leaves (hue, reason) unchanged.
C10_GateExcludes ==
    /\ []((Analyzed /\ Gated # {}) =>
            /\ HistTotal(histogram(image.pixels, min_sat, min_val, bins), bins) > 0
            /\ reason[1] = "hist_peak_bin_"
            /\ \E k \in Gated : BinOf(image.pixels[k], bins) = reason[2])
    /\ [][(pc = "analyzed" /\ pc' = "reanalyzed") => (hue' = hue /\ reason' = reason)]_vars

C10_Witness ==
    /\ pc = "reanalyzed"
    /\ Gated # {}
    /\ Gated # 1..Len(image.pixels)
    /\ hue # None

====
